---- MODULE Spec2Model ----
(***************************************************************************)
(* The yield-prediction pipeline of agridom-project:                       *)
(*   - the client component YieldPrediction (form, handlePredict),         *)
(*   - the forwarding function predict-yield (the Deno serve handler),     *)
(*   - the model gateway, which is the environment.                        *)
(* Texts are sequences of atoms (TLA+ strings): a brace, a quote, a word,  *)
(* a number lexeme.  The only atoms that contain a brace character are     *)
(* "{" and "}" themselves.                                                 *)
(***************************************************************************)
EXTENDS Integers, Sequences, FiniteSets, TLC

(* ----------------------------- bounds ---------------------------------- *)

\* handleInputChange calls in one behaviour
MaxEdits == 8

\* handlePredict invocations in one behaviour (validation failures included)
MaxClicks == 2

(* --------------------------- small helpers ----------------------------- *)

Max(S) == CHOOSE x \in S : \A y \in S : y <= x

Min(S) == CHOOSE x \in S : \A y \in S : x <= y

\* String.prototype.includes on atom sequences: the atom w occurs in text t
Includes(t, w) == \E i \in 1..Len(t) : t[i] = w

(* ------------------------- JavaScript values --------------------------- *)

JNull == [type |-> "null"]

JBool(b) == [type |-> "bool", bool |-> b]

\* a number is kept as its canonical JSON lexeme
JNum(lexeme) == [type |-> "num", num |-> lexeme]

\* a string is the sequence of its atoms
JStr(atoms) == [type |-> "str", str |-> atoms]

JArr(elements) == [type |-> "arr", arr |-> elements]

\* an object keeps its members in insertion order: <<[key, val], ...>>
JObj(members) == [type |-> "obj", members |-> members]

Member(k, v) == [key |-> k, val |-> v]

HasKey(members, k) == \E i \in 1..Len(members) : members[i].key = k

\* obj[k] = v: an existing key keeps its place, a new key is appended
SetMember(members, k, v) ==
    IF HasKey(members, k)
    THEN [i \in 1..Len(members) |->
            IF members[i].key = k THEN Member(k, v) ELSE members[i]]
    ELSE Append(members, Member(k, v))

GetMember(members, k) ==
    members[CHOOSE i \in 1..Len(members) : members[i].key = k].val

\* ToBoolean of a JavaScript value
Truthy(v) ==
    CASE v.type = "null" -> FALSE
      [] v.type = "bool" -> v.bool
      [] v.type = "num"  -> v.num # "0"
      [] v.type = "str"  -> v.str # <<>>
      [] OTHER           -> TRUE

(* ------------------------------ JSON ----------------------------------- *)

Quote == "\""

Whitespace == {" ", "\n"}

\* the number lexemes that occur in the texts of this model
NumberAtoms == {"0", "4", "28.5", "72", "114"}

Literals == {"null", "true", "false"}

LiteralValue(a) ==
    CASE a = "null" -> JNull
      [] a = "true" -> JBool(TRUE)
      [] a = "false" -> JBool(FALSE)

ParseFail == [ok |-> FALSE]

ParseOk(v, n) == [ok |-> TRUE, val |-> v, next |-> n]

RECURSIVE SkipWs(_, _)
SkipWs(t, i) ==
    IF i <= Len(t) /\ t[i] \in Whitespace THEN SkipWs(t, i + 1) ELSE i

\* a string literal opening at t[i]: it runs to the next quote and holds no
\* raw line break
ParseString(t, i) ==
    LET closing == {j \in (i + 1)..Len(t) : t[j] = Quote}
    IN  IF closing = {} THEN ParseFail
        ELSE LET j == Min(closing)
             IN  IF \E k \in (i + 1)..(j - 1) : t[k] = "\n"
                 THEN ParseFail
                 ELSE ParseOk(SubSeq(t, i + 1, j - 1), j + 1)

RECURSIVE ParseValue(_, _), ParseMembers(_, _, _), ParseElements(_, _, _)

\* the JSON value that starts at or after t[i0], and the index after it
ParseValue(t, i0) ==
    LET i == SkipWs(t, i0)
    IN  IF i > Len(t) THEN ParseFail
        ELSE CASE t[i] = "{" ->
                    LET k == SkipWs(t, i + 1)
                    IN  IF k <= Len(t) /\ t[k] = "}"
                        THEN ParseOk(JObj(<<>>), k + 1)
                        ELSE ParseMembers(t, k, <<>>)
               [] t[i] = "[" ->
                    LET k == SkipWs(t, i + 1)
                    IN  IF k <= Len(t) /\ t[k] = "]"
                        THEN ParseOk(JArr(<<>>), k + 1)
                        ELSE ParseElements(t, k, <<>>)
               [] t[i] = Quote ->
                    LET s == ParseString(t, i)
                    IN  IF s.ok THEN ParseOk(JStr(s.val), s.next) ELSE ParseFail
               [] t[i] \in NumberAtoms -> ParseOk(JNum(t[i]), i + 1)
               [] t[i] \in Literals -> ParseOk(LiteralValue(t[i]), i + 1)
               [] OTHER -> ParseFail

\* "key": value {, "key": value} "}" from t[i] on; acc holds the members so far
ParseMembers(t, i, acc) ==
    IF i > Len(t) \/ t[i] # Quote THEN ParseFail
    ELSE LET k == ParseString(t, i)
         IN  IF ~k.ok THEN ParseFail
             ELSE LET c == SkipWs(t, k.next)
                  IN  IF c > Len(t) \/ t[c] # ":" THEN ParseFail
                      ELSE LET v == ParseValue(t, c + 1)
                           IN  IF ~v.ok THEN ParseFail
                               ELSE LET e == SkipWs(t, v.next)
                                        more == SetMember(acc, k.val, v.val)
                                    IN  IF e > Len(t) THEN ParseFail
                                        ELSE IF t[e] = "}"
                                        THEN ParseOk(JObj(more), e + 1)
                                        ELSE IF t[e] = ","
                                        THEN ParseMembers(t, SkipWs(t, e + 1), more)
                                        ELSE ParseFail

\* value {, value} "]" from t[i] on
ParseElements(t, i, acc) ==
    LET v == ParseValue(t, i)
    IN  IF ~v.ok THEN ParseFail
        ELSE LET e == SkipWs(t, v.next)
                 more == Append(acc, v.val)
             IN  IF e > Len(t) THEN ParseFail
                 ELSE IF t[e] = "]" THEN ParseOk(JArr(more), e + 1)
                 ELSE IF t[e] = "," THEN ParseElements(t, e + 1, more)
                 ELSE ParseFail

\* JSON.parse: [ok |-> FALSE] stands for the SyntaxError it throws
JSONParse(t) ==
    LET r == ParseValue(t, 1)
    IN  IF r.ok /\ SkipWs(t, r.next) = Len(t) + 1
        THEN [ok |-> TRUE, val |-> r.val]
        ELSE ParseFail

RECURSIVE Stringify(_), StringifyMembers(_), StringifyElements(_)

\* JSON.stringify without indentation
Stringify(v) ==
    CASE v.type = "null" -> <<"null">>
      [] v.type = "bool" -> IF v.bool THEN <<"true">> ELSE <<"false">>
      [] v.type = "num"  -> <<v.num>>
      [] v.type = "str"  -> <<Quote>> \o v.str \o <<Quote>>
      [] v.type = "arr"  -> <<"[">> \o StringifyElements(v.arr) \o <<"]">>
      [] v.type = "obj"  -> <<"{">> \o StringifyMembers(v.members) \o <<"}">>

StringifyMembers(ms) ==
    IF ms = <<>> THEN <<>>
    ELSE <<Quote>> \o ms[1].key \o <<Quote, ":">> \o Stringify(ms[1].val)
         \o (IF Len(ms) > 1 THEN <<",">> \o StringifyMembers(Tail(ms)) ELSE <<>>)

StringifyElements(es) ==
    IF es = <<>> THEN <<>>
    ELSE Stringify(es[1])
         \o (IF Len(es) > 1 THEN <<",">> \o StringifyElements(Tail(es)) ELSE <<>>)

(* ------------------- the forwarding function: normalizer --------------- *)

\* a lazy match: from the first "{" to the first "}" after it
MatchBracesLazy(content) ==
    LET opens  == {i \in 1..Len(content) : content[i] = "{"}
        closes == {j \in 1..Len(content) : content[j] = "}" /\ opens # {} /\ j > Min(opens)}
    IN  IF closes # {}
        THEN [found |-> TRUE, text |-> SubSeq(content, Min(opens), Min(closes))]
        ELSE [found |-> FALSE]

\* content.match(/\{[\s\S]*\}/): from the first "{" to the last "}" after it
MatchBraces(content) ==
    LET opens  == {i \in 1..Len(content) : content[i] = "{"}
        closes == {j \in 1..Len(content) : content[j] = "}"}
    IN  IF opens # {} /\ closes # {} /\ Max(closes) > Min(opens)
        THEN [found |-> TRUE, text |-> SubSeq(content, Min(opens), Max(closes))]
        ELSE [found |-> FALSE]

\* an extraction that falls back to an empty object instead of throwing
ExtractPredictionOrEmpty(content) ==
    LET jsonMatch == MatchBraces(content)
        parsed == IF jsonMatch.found THEN JSONParse(jsonMatch.text)
                  ELSE JSONParse(content)
    IN  IF parsed.ok THEN parsed ELSE [ok |-> TRUE, val |-> JObj(<<>>)]

\* an extraction that tries the whole text when the matched text fails
ExtractPredictionThenWhole(content) ==
    LET jsonMatch == MatchBraces(content)
    IN  IF jsonMatch.found /\ JSONParse(jsonMatch.text).ok
        THEN JSONParse(jsonMatch.text)
        ELSE JSONParse(content)

\* the try block that fills `prediction`
ExtractPrediction(content) ==
    LET jsonMatch == MatchBraces(content)
    IN  IF jsonMatch.found THEN JSONParse(jsonMatch.text) ELSE JSONParse(content)

(* --------------------------- the client form --------------------------- *)

\* the value of a number input is a sequence of characters
Digits == {"0", "1", "2", "3", "4", "5", "6", "7", "8", "9"}

DigitValue(c) ==
    CASE c = "0" -> 0 [] c = "1" -> 1 [] c = "2" -> 2 [] c = "3" -> 3
      [] c = "4" -> 4 [] c = "5" -> 5 [] c = "6" -> 6 [] c = "7" -> 7
      [] c = "8" -> 8 [] c = "9" -> 9

NaN == [kind |-> "NaN"]

Infinity(negative) == [kind |-> "Infinity", neg |-> negative]

\* mantissa / 10^scale, negated when neg
Number(negative, m, k) ==
    [kind |-> "number", neg |-> negative, mantissa |-> m, scale |-> k]

\* Number.isFinite
IsFinite(v) == v.kind = "number"

\* the length of the longest prefix of s made of digits
RECURSIVE DigitRun(_)
DigitRun(s) ==
    IF s # <<>> /\ Head(s) \in Digits THEN 1 + DigitRun(Tail(s)) ELSE 0

RECURSIVE DigitsValue(_, _)
DigitsValue(s, acc) ==
    IF s = <<>> THEN acc ELSE DigitsValue(Tail(s), 10 * acc + DigitValue(Head(s)))

RECURSIVE TrimStart(_)
TrimStart(s) ==
    IF s # <<>> /\ Head(s) \in Whitespace THEN TrimStart(Tail(s)) ELSE s

Drop(s, n) == SubSeq(s, n + 1, Len(s))

StartsWith(s, p) == Len(s) >= Len(p) /\ SubSeq(s, 1, Len(p)) = p

\* the digits of s without its leading zeros
RECURSIVE Significant(_)
Significant(s) ==
    IF s # <<>> /\ Head(s) = "0" THEN Significant(Tail(s)) ELSE s

\* parseFloat: leading white space is skipped, then the longest prefix that
\* is a decimal literal (sign, digits, fraction, exponent) is converted; NaN
\* when there is none.  A literal of 10^309 or more is beyond the doubles and
\* gives Infinity (the inputs of this model stay clear of the exact limit,
\* which lies between 10^308 and 10^309)
parseFloat(s) ==
    LET t        == TrimStart(s)
        signed   == t # <<>> /\ Head(t) \in {"+", "-"}
        negative == signed /\ Head(t) = "-"
        u        == IF signed THEN Tail(t) ELSE t
        n        == DigitRun(u)
        afterInt == Drop(u, n)
        hasPoint == afterInt # <<>> /\ Head(afterInt) = "."
        f        == IF hasPoint THEN DigitRun(Tail(afterInt)) ELSE 0
        fraction == IF hasPoint THEN SubSeq(afterInt, 2, f + 1) ELSE <<>>
        afterFrc == IF hasPoint THEN Drop(afterInt, f + 1) ELSE afterInt
        hasE     == afterFrc # <<>> /\ Head(afterFrc) \in {"e", "E"}
        afterE   == IF hasE THEN Tail(afterFrc) ELSE <<>>
        eSigned  == afterE # <<>> /\ Head(afterE) \in {"+", "-"}
        eDigits  == IF eSigned THEN Tail(afterE) ELSE afterE
        x        == DigitRun(eDigits)
        exponent == IF x = 0 THEN 0
                    ELSE IF eSigned /\ Head(afterE) = "-"
                    THEN 0 - DigitsValue(SubSeq(eDigits, 1, x), 0)
                    ELSE DigitsValue(SubSeq(eDigits, 1, x), 0)
        digits   == SubSeq(u, 1, n) \o fraction
        leading  == Len(Significant(digits)) - f + exponent
    IN  IF StartsWith(u, <<"I", "n", "f", "i", "n", "i", "t", "y">>)
        THEN Infinity(negative)
        ELSE IF n + f = 0 THEN NaN
        ELSE IF Significant(digits) # <<>> /\ leading > 309 THEN Infinity(negative)
        ELSE Number(negative, DigitsValue(digits, 0), f - exponent)

\* the options of the two selects that the model uses; a select starts at ""
\* and offers no empty option
CropInputs == {"Banane"}

SoilInputs == {"Argileux"}

\* what the model types into the number fields; an <input type="number">
\* gives "" or a valid floating-point number, which may be beyond the doubles
NumericInputs == {<<>>, <<"4">>}

HumidityInputs == {<<>>, <<"9", "0">>, <<"1", "e", "9", "9", "9">>}

AreaInputs == {<<>>, <<"2", ".", "5">>, <<"4">>}

requiredFields == {"humidity", "moisture", "temperature", "rainfall", "area"}

FormFields == {"cropType", "soilType"} \cup requiredFields

InputsOf(field) ==
    CASE field = "cropType" -> CropInputs
      [] field = "soilType" -> SoilInputs
      [] field = "humidity" -> HumidityInputs
      [] field = "area" -> AreaInputs
      [] OTHER -> NumericInputs

\* the validation at the head of handlePredict: "ok" or the toast it raises
CropSoilMessage == JStr(<<"Please select crop type and soil type">>)

EnvironmentMessage == JStr(<<"Please fill in all environmental factors">>)

\* a validator that forgets the last of the five fields
missingFieldsExceptArea(form) ==
    {field \in requiredFields \ {"area"} : form[field] = <<>>}

missingFields(form) == {field \in requiredFields : form[field] = <<>>}

\* a validation that looks at the number fields first
ValidateNumbersFirst(form) ==
    IF missingFields(form) # {} THEN EnvironmentMessage
    ELSE IF form.cropType = "" \/ form.soilType = "" THEN CropSoilMessage
    ELSE JNull

Validate(form) ==
    IF form.cropType = "" \/ form.soilType = "" THEN CropSoilMessage
    ELSE IF missingFields(form) # {} THEN EnvironmentMessage
    ELSE JNull

\* JSON.stringify of a number in the request body: NaN and the infinities
\* become null
BodyNumber(v) == IF IsFinite(v) THEN v ELSE JNull

\* the body that supabase.functions.invoke serialises
RequestBody(form) ==
    [cropType    |-> form.cropType,
     soilType    |-> form.soilType,
     humidity    |-> BodyNumber(parseFloat(form.humidity)),
     moisture    |-> BodyNumber(parseFloat(form.moisture)),
     temperature |-> BodyNumber(parseFloat(form.temperature)),
     rainfall    |-> BodyNumber(parseFloat(form.rainfall)),
     area        |-> BodyNumber(parseFloat(form.area))]

(* ------------------- the forwarding function: prompts ------------------ *)

Lit(text) == [lit |-> text]

\* ${value} in a template literal
Interpolate(value) == [val |-> value]

systemPrompt ==
    <<Lit("You are an expert agricultural AI specialized in crop yield prediction for tropical crops in Guadeloupe. ...")>>

userPrompt(body) ==
    <<Lit("Predict the yield for "), Interpolate(body.cropType),
      Lit(" with these conditions:\n- Soil Type: "), Interpolate(body.soilType),
      Lit("\n- Humidity: "), Interpolate(body.humidity),
      Lit("%\n- Soil Moisture: "), Interpolate(body.moisture),
      Lit("%\n- Temperature: "), Interpolate(body.temperature),
      Lit("C\n- Rainfall: "), Interpolate(body.rainfall),
      Lit("mm\n- Cultivation Area: "), Interpolate(body.area),
      Lit(" hectares\n\nProvide: ... Format your response as JSON with this structure: ...")>>

\* the request that fetch sends to the gateway
GatewayRequest(body) ==
    [url         |-> "https://ai.gateway.lovable.dev/v1/chat/completions",
     method      |-> "POST",
     model       |-> "google/gemini-2.5-flash",
     messages    |-> <<[role |-> "system", content |-> systemPrompt],
                       [role |-> "user", content |-> userPrompt(body)]>>,
     temperature |-> "0.7"]

(* ------------------------- the gateway's replies ----------------------- *)

Str(word) == JStr(<<word>>)

\* a PredictionResult with every field of the interface, and diseaseRisks
FullResult ==
    JObj(<<Member(<<"yieldPerHectare">>, JNum("28.5")),
           Member(<<"totalProduction">>, JNum("114")),
           Member(<<"confidenceLevel">>, JNum("72")),
           Member(<<"qualityGrade">>, Str("Bonne")),
           Member(<<"diseaseRisks">>,
                  JArr(<<JObj(<<Member(<<"name">>, JStr(<<"Black", " ", "Sigatoka">>)),
                                Member(<<"riskLevel">>, Str("High"))>>)>>)),
           Member(<<"keyFactors">>, JArr(<<JStr(<<"high", " ", "humidity">>)>>)),
           Member(<<"recommendations">>, JArr(<<JStr(<<"improve", " ", "drainage">>)>>)),
           Member(<<"analysis">>, JStr(<<"wet", " ", "{", "season", "}">>))>>)

\* the same without the optional diseaseRisks
PlainResult ==
    JObj(<<Member(<<"yieldPerHectare">>, JNum("4")),
           Member(<<"totalProduction">>, JNum("0")),
           Member(<<"confidenceLevel">>, JNum("72")),
           Member(<<"qualityGrade">>, Str("Faible")),
           Member(<<"keyFactors">>, JArr(<<>>)),
           Member(<<"recommendations">>, JArr(<<>>)),
           Member(<<"analysis">>, JStr(<<>>))>>)

WellFormedResults == {FullResult, PlainResult}

\* an object that parses but lacks most of the required fields
PartialResult ==
    JObj(<<Member(<<"yieldPerHectare">>, JNum("28.5")),
           Member(<<"qualityGrade">>, Str("Bonne"))>>)

RefusalObject == JObj(<<Member(<<"error">>, JStr(<<"no", " ", "data">>))>>)

\* the markdown fence: three backquotes and the language tag, three backquotes
FenceOpen == "'''json"

FenceClose == "'''"

Fenced(preamble, result, trailing) ==
    preamble \o <<FenceOpen, "\n">> \o Stringify(result)
             \o <<"\n", FenceClose>> \o trailing

PlainPreamble == <<"Here", " ", "is", " ", "the", " ", "prediction", ":", "\n">>

\* prose with an opening brace
OpenPreamble == <<"Result", " ", "as", " ", "{", "json", "}", ":", "\n">>

\* prose with a closing brace only
ClosePreamble == <<"1", "}", " ", "the", " ", "prediction", "\n">>

Preambles == {<<>>, PlainPreamble, OpenPreamble, ClosePreamble}

PlainTrailing == <<"\n", "Good", " ", "luck">>

\* prose with a closing brace
CloseTrailing == <<"\n", "See", " ", "{", "notes", "}">>

\* prose with an opening brace only
OpenTrailing == <<"\n", "Notes", " ", "{", "none">>

Trailings == {<<>>, PlainTrailing, CloseTrailing, OpenTrailing}

\* the message contents the gateway may answer with
ReplyContents ==
    {Fenced(PlainPreamble, FullResult, PlainTrailing),
     Fenced(ClosePreamble, PlainResult, OpenTrailing),
     Fenced(OpenPreamble, FullResult, <<>>),
     Fenced(<<>>, PlainResult, CloseTrailing),
     Stringify(FullResult),
     Stringify(PartialResult),
     Stringify(RefusalObject),
     <<"I", " ", "cannot", " ", "predict">>,
     <<"}", " ", "no", " ", "{">>,
     <<"{", "oops", "}">>,
     <<"null">>,
     <<Quote, "{", "x", "}", Quote>>}

\* the first choice of a 2xx body: data.choices[0]
Choice(content) == [message |-> [content |-> content]]

\* data.choices[0].message of a choice that has no `message`
NoMessage == [undefined |-> TRUE]

\* a message whose content is null, as of a reply that holds no text
NullContent == [content |-> <<>>, null |-> TRUE]

\* first choices from which no text can be read
SilentChoices == {[message |-> NoMessage], [message |-> NullContent], Choice(<<>>)}

\* a JSON body without `choices`: data.choices is undefined
NoChoicesBody == [json |-> TRUE, choices |-> <<>>, absent |-> TRUE]

\* a 2xx body: not JSON at all, JSON without `choices`, or JSON with a
\* `choices` array
GatewayBodies ==
    {[json |-> FALSE], NoChoicesBody}
    \cup {[json |-> TRUE, choices |-> <<>>]}
    \cup {[json |-> TRUE, choices |-> <<choice>>] : choice \in SilentChoices}
    \cup {[json |-> TRUE, choices |-> <<Choice(c)>>] : c \in ReplyContents}

ErrorStatuses == {429, 402, 503}

\* what the await of fetch can produce: a rejection, or a response
GatewayReplies ==
    {[kind |-> "rejected"]}
    \cup {[kind |-> "http", status |-> st] : st \in ErrorStatuses}
    \cup {[kind |-> "http", status |-> 200, body |-> b] : b \in GatewayBodies}

(* ---------------- the forwarding function: the handler ----------------- *)

\* new Response(JSON.stringify(value), {status, headers})
Response(st, value) == [status |-> st, body |-> Stringify(value)]

ErrorBody(message) == JObj(<<Member(<<"error">>, JStr(message))>>)

\* the catch block of the handler: status 500 with error.message
Caught(message) == Response(500, ErrorBody(message))

NotConfigured == <<"LOVABLE_API_KEY is not configured">>

RateLimited == <<"Rate limits exceeded. Please try again later.">>

PaymentRequired == <<"Payment required. Please add credits to your workspace.">>

GatewayError(st) == <<"AI gateway error: ", ToString(st)>>

ParseFailed == <<"Failed to parse prediction data">>

\* messages of errors the runtime raises
FetchRejected == <<"error sending request">>

BodyNotJson == <<"Unexpected token in JSON">>

NoFirstChoice == <<"Cannot read properties of undefined (reading 'message')">>

NoChoices == <<"Cannot read properties of undefined (reading '0')">>

NoMessageOfChoice == <<"Cannot read properties of undefined (reading 'content')">>

\* response.ok
Ok(st) == st >= 200 /\ st <= 299

\* a handler without the branch for 402
NotOkResponseWithout402(st) ==
    IF st = 429 THEN Response(429, ErrorBody(RateLimited))
    ELSE Caught(GatewayError(st))

\* if (!response.ok) { ... }: the response of the handler to a non-2xx reply
NotOkResponse(st) ==
    IF st = 429 THEN Response(429, ErrorBody(RateLimited))
    ELSE IF st = 402 THEN Response(402, ErrorBody(PaymentRequired))
    ELSE Caught(GatewayError(st))

\* from `let prediction` to the success response
NormalizedResponse(content) ==
    LET prediction == ExtractPrediction(content)
    IN  IF prediction.ok THEN Response(200, prediction.val)
        ELSE Caught(ParseFailed)

\* a handler that reads the content with optional chaining and answers
\* with what it found when there is nothing to parse
ReadContentOptional(body) ==
    IF \/ body = NoChoicesBody
       \/ body.choices = <<>>
       \/ body.choices[1].message = NoMessage
       \/ body.choices[1].message = NullContent
    THEN Response(200, JNull)
    ELSE NormalizedResponse(body.choices[1].message.content)

\* data.choices[0].message.content, and the rest of the handler: reading a
\* property of undefined throws to the catch block of the handler, and
\* content.match on null throws inside the try block of the extraction
ReadContent(body) ==
    IF body = NoChoicesBody THEN Caught(NoChoices)
    ELSE IF body.choices = <<>> THEN Caught(NoFirstChoice)
    ELSE IF body.choices[1].message = NoMessage THEN Caught(NoMessageOfChoice)
    ELSE IF body.choices[1].message = NullContent THEN Caught(ParseFailed)
    ELSE NormalizedResponse(body.choices[1].message.content)

\* the handler from the await of fetch on
ServeResponse(reply) ==
    IF reply.kind = "rejected" THEN Caught(FetchRejected)
    ELSE IF ~Ok(reply.status) THEN NotOkResponse(reply.status)
    ELSE IF ~reply.body.json THEN Caught(BodyNotJson)
    ELSE ReadContent(reply.body)

(* ------------------- the client: supabase.functions.invoke ------------- *)

NonOkMessage == "Edge Function returned a non-2xx status code"

SendFailedMessage == "Failed to send a request to the Edge Function"

\* {data, error} of an invocation that resolves
Resolved(data, error) == [kind |-> "resolved", data |-> data, error |-> error]

FunctionsError(message) == [message |-> message]

\* what the client gets when no response arrives; the wording of the error
\* belongs to the client library and to the failure underneath, and may
\* quote numbers of its own
TransportFailures ==
    {Resolved(JNull, FunctionsError(<<SendFailedMessage>>)),
     Resolved(JNull, FunctionsError(<<SendFailedMessage, ": ", "402", " ", "429">>))}

\* what the client gets for a response of the function: the parsed body of a
\* 2xx response, an error for any other; the wording of that error belongs to
\* the client library and may or may not show the status
InvokeResults(response) ==
    IF Ok(response.status)
    THEN {Resolved(JSONParse(response.body).val, JNull)}
    ELSE {Resolved(JNull, FunctionsError(<<NonOkMessage>>)),
          Resolved(JNull, FunctionsError(<<NonOkMessage, ": ", ToString(response.status)>>))}

(* --------------------- the client: after the await --------------------- *)

RateLimitToast == JStr(<<"Rate limit exceeded. Please try again in a moment.">>)

CreditsToast == JStr(<<"Service credits depleted. Please contact support.">>)

FailedToast == JStr(<<"Failed to generate prediction. Please try again.">>)

UnexpectedToast == JStr(<<"An unexpected error occurred">>)

SuccessToast == JStr(<<"Yield prediction generated successfully!">>)

\* a classification that looks for 402 before 429
ErrorToast402First(error) ==
    IF Includes(error.message, "402") THEN CreditsToast
    ELSE IF Includes(error.message, "429") THEN RateLimitToast
    ELSE FailedToast

\* if (error) { ... }: the message shown for a returned error
ErrorToast(error) ==
    IF Includes(error.message, "429") THEN RateLimitToast
    ELSE IF Includes(error.message, "402") THEN CreditsToast
    ELSE FailedToast

\* data.error, undefined being JNull here; reading it off null throws
DataError(data) ==
    IF data.type = "obj" /\ HasKey(data.members, <<"error">>)
    THEN GetMember(data.members, <<"error">>)
    ELSE JNull

\* the body of the try block after the await, and the catch block:
\* the toast raised, and the value given to setPrediction if it is called
Settle(result) ==
    IF result.error # JNull
    THEN [toast |-> "error", message |-> ErrorToast(result.error), set |-> FALSE]
    ELSE IF result.data = JNull
    THEN [toast |-> "error", message |-> UnexpectedToast, set |-> FALSE]
    ELSE IF Truthy(DataError(result.data))
    THEN [toast |-> "error", message |-> DataError(result.data), set |-> FALSE]
    ELSE [toast |-> "success", message |-> SuccessToast, set |-> TRUE,
          value |-> result.data]
(* ------------------------- the settings provider ----------------------- *)

\* an item of localStorage: absent (getItem gives null), or its text
Absent == [present |-> FALSE]

Stored(text) == [present |-> TRUE, text |-> text]

defaultSettings ==
    JObj(<<Member(<<"darkMode">>, JBool(FALSE)),
           Member(<<"locale">>, Str("en-US")),
           Member(<<"compactMode">>, JBool(FALSE)),
           Member(<<"currency">>, Str("USD")),
           Member(<<"dateFormat">>, Str("MM/DD/YYYY")),
           Member(<<"emailNotifications">>, JBool(TRUE)),
           Member(<<"pushNotifications">>, JBool(FALSE)),
           Member(<<"weatherAlerts">>, JBool(TRUE)),
           Member(<<"autoSave">>, JBool(TRUE)),
           Member(<<"offlineMode">>, JBool(FALSE))>>)

\* the own enumerable properties that {...v} copies: the members of an
\* object, the indexed elements of an array or of a string (one per atom
\* here), nothing for null, a boolean or a number
Spread(v) ==
    CASE v.type = "obj" -> v.members
      [] v.type = "arr" ->
            [i \in 1..Len(v.arr) |-> Member(<<ToString(i - 1)>>, v.arr[i])]
      [] v.type = "str" ->
            [i \in 1..Len(v.str) |-> Member(<<ToString(i - 1)>>, JStr(<<v.str[i]>>))]
      [] OTHER -> <<>>

RECURSIVE Assign(_, _)
\* {...target, ...source} on members: the members of source set one by one
Assign(target, source) ==
    IF source = <<>> THEN target
    ELSE Assign(SetMember(target, source[1].key, source[1].val), Tail(source))

\* the initializer of useState in AppSettingsProvider, `saved` being the
\* item 'appSettings'
InitialSettings(saved) ==
    IF ~saved.present \/ saved.text = <<>> THEN defaultSettings
    ELSE LET parsed == JSONParse(saved.text)
         IN  IF parsed.ok
             THEN JObj(Assign(defaultSettings.members, Spread(parsed.val)))
             ELSE defaultSettings

\* the updater of updateSetting: { ...prevSettings, [key]: value }
SettingUpdater(prevSettings, key, value) ==
    JObj(SetMember(prevSettings.members, key, value))

\* an updater that creates the section when there is none
NestedSettingUpdaterCreating(prevSettings, section, key, value) ==
    LET sectionData == IF HasKey(prevSettings.members, section)
                       THEN GetMember(prevSettings.members, section)
                       ELSE JNull
    IN  JObj(SetMember(prevSettings.members, section,
                       JObj(Assign(Spread(sectionData), <<Member(key, value)>>))))

\* the updater of updateNestedSetting; a section that is not there reads as
\* undefined, which is JNull here
NestedSettingUpdater(prevSettings, section, key, value) ==
    LET sectionData == IF HasKey(prevSettings.members, section)
                       THEN GetMember(prevSettings.members, section)
                       ELSE JNull
    IN  IF Truthy(sectionData)
        THEN JObj(SetMember(prevSettings.members, section,
                            JObj(Assign(Spread(sectionData), <<Member(key, value)>>))))
        ELSE prevSettings

(* ------------------------------- state --------------------------------- *)

VARIABLES
    formData,     \* useState: the seven form values
    loading,      \* useState
    prediction,   \* useState: JNull or the data of the last success
    toast,        \* the toast raised last, with the click that raised it
    toastCount,   \* per click, the error and success toasts it has raised
    clicks,       \* handlePredict invocations so far
    edits,        \* handleInputChange calls so far
    calls,        \* the invocations of the function, in dispatch order
    settled,      \* the last invocation that returned since the last dispatch
    apiKey,       \* Deno.env.get("LOVABLE_API_KEY") is set
    settings,     \* AppSettingsProvider, useState: the settings object
    hasChanges,   \* SettingsPage, useState
    appSettings,  \* localStorage: the item 'appSettings'
    theme,        \* localStorage: the item 'theme'
    darkClass,    \* document.documentElement has the class 'dark'
    changes       \* operations on the settings so far

\* the settings provider, the settings page and the storage they use
svars == <<settings, hasChanges, appSettings, theme, darkClass, changes>>

vars == <<formData, loading, prediction, toast, toastCount, clicks, edits, calls, settled, apiKey, svars>>

None == [none |-> TRUE]

\* the record of one supabase.functions.invoke: the click that made it, the
\* body sent, where it stands, the requests the function sent to the gateway,
\* the gateway's reply and the function's response while they are in flight
NewCall(click, body) ==
    [click |-> click, body |-> body, stage |-> "sent", fetches |-> <<>>,
     reply |-> None, response |-> None]

Toast(kind, message, click) == [kind |-> kind, message |-> message, click |-> click]

NoToasts == [error |-> 0, success |-> 0]

\* one more toast of the kind
Raised(kind, count) == [count EXCEPT ![kind] = @ + 1]

Init ==
    /\ formData = [cropType |-> "", soilType |-> "", humidity |-> <<>>,
                   moisture |-> <<>>, temperature |-> <<>>, rainfall |-> <<>>,
                   area |-> <<>>]
    /\ loading = FALSE
    /\ prediction = JNull
    /\ toast = None
    /\ toastCount = <<>>
    /\ clicks = 0
    /\ edits = 0
    /\ calls = <<>>
    /\ settled = None
    /\ apiKey \in BOOLEAN
    /\ appSettings = Absent
    /\ theme = Absent
    /\ settings = InitialSettings(appSettings)
    /\ hasChanges = FALSE
    /\ darkClass = FALSE
    /\ changes = 0

(* ------------------------------ actions -------------------------------- *)

\* onChange / onValueChange of a form control
handleInputChange(field, value) ==
    /\ edits < MaxEdits
    /\ value # formData[field]
    /\ formData' = [formData EXCEPT ![field] = value]
    /\ edits' = edits + 1
    /\ UNCHANGED <<loading, prediction, toast, toastCount, clicks, calls, settled,
                   apiKey, svars>>

\* a handlePredict that does not call the function again for a body it has
\* already sent
handlePredictCached ==
    /\ clicks < MaxClicks
    /\ clicks' = clicks + 1
    /\ IF Validate(formData) # JNull
       THEN /\ toast' = Toast("error", Validate(formData), clicks + 1)
            /\ toastCount' = Append(toastCount, Raised("error", NoToasts))
            /\ UNCHANGED <<loading, prediction, calls, settled>>
       ELSE IF \E c \in 1..Len(calls) : calls[c].body = RequestBody(formData)
       THEN /\ toastCount' = Append(toastCount, NoToasts)
            /\ UNCHANGED <<loading, prediction, calls, settled, toast>>
       ELSE /\ loading' = TRUE
            /\ prediction' = JNull
            /\ calls' = Append(calls, NewCall(clicks + 1, RequestBody(formData)))
            /\ settled' = None
            /\ toastCount' = Append(toastCount, NoToasts)
            /\ UNCHANGED toast
    /\ UNCHANGED <<formData, edits, apiKey, svars>>

\* a handlePredict that forgets setLoading(true)
handlePredictWithoutLoading ==
    /\ clicks < MaxClicks
    /\ clicks' = clicks + 1
    /\ IF Validate(formData) # JNull
       THEN /\ toast' = Toast("error", Validate(formData), clicks + 1)
            /\ toastCount' = Append(toastCount, Raised("error", NoToasts))
            /\ UNCHANGED <<loading, prediction, calls, settled>>
       ELSE /\ prediction' = JNull
            /\ calls' = Append(calls, NewCall(clicks + 1, RequestBody(formData)))
            /\ settled' = None
            /\ toastCount' = Append(toastCount, NoToasts)
            /\ UNCHANGED <<loading, toast>>
    /\ UNCHANGED <<formData, edits, apiKey, svars>>

\* a handlePredict that forgets setPrediction(null)
handlePredictKeepsResult ==
    /\ clicks < MaxClicks
    /\ clicks' = clicks + 1
    /\ IF Validate(formData) # JNull
       THEN /\ toast' = Toast("error", Validate(formData), clicks + 1)
            /\ toastCount' = Append(toastCount, Raised("error", NoToasts))
            /\ UNCHANGED <<loading, prediction, calls, settled>>
       ELSE /\ loading' = TRUE
            /\ calls' = Append(calls, NewCall(clicks + 1, RequestBody(formData)))
            /\ settled' = None
            /\ toastCount' = Append(toastCount, NoToasts)
            /\ UNCHANGED <<prediction, toast>>
    /\ UNCHANGED <<formData, edits, apiKey, svars>>

\* a handlePredict that calls setPrediction(null) before it validates
handlePredictClearsFirst ==
    /\ clicks < MaxClicks
    /\ clicks' = clicks + 1
    /\ prediction' = JNull
    /\ IF Validate(formData) # JNull
       THEN /\ toast' = Toast("error", Validate(formData), clicks + 1)
            /\ toastCount' = Append(toastCount, Raised("error", NoToasts))
            /\ UNCHANGED <<loading, calls, settled>>
       ELSE /\ loading' = TRUE
            /\ calls' = Append(calls, NewCall(clicks + 1, RequestBody(formData)))
            /\ settled' = None
            /\ toastCount' = Append(toastCount, NoToasts)
            /\ UNCHANGED toast
    /\ UNCHANGED <<formData, edits, apiKey, svars>>

\* handlePredict up to its await
handlePredict ==
    /\ clicks < MaxClicks
    /\ clicks' = clicks + 1
    /\ IF Validate(formData) # JNull
       THEN /\ toast' = Toast("error", Validate(formData), clicks + 1)
            /\ toastCount' = Append(toastCount, Raised("error", NoToasts))
            /\ UNCHANGED <<loading, prediction, calls, settled>>
       ELSE /\ loading' = TRUE
            /\ prediction' = JNull
            /\ calls' = Append(calls, NewCall(clicks + 1, RequestBody(formData)))
            /\ settled' = None
            /\ toastCount' = Append(toastCount, NoToasts)
            /\ UNCHANGED toast
    /\ UNCHANGED <<formData, edits, apiKey, svars>>

\* a button that stays enabled while a request is in flight
ClickPredictAlways == handlePredict

\* the Predict button: disabled={loading}
ClickPredict ==
    /\ ~loading
    /\ handlePredict

\* a handler that reads the credential only after it has called the gateway
serveFetchesFirst(c) ==
    /\ calls[c].stage = "sent"
    /\ IF ~apiKey
       THEN calls' = [calls EXCEPT ![c].stage = "responded",
                                   ![c].fetches = Append(@, GatewayRequest(calls[c].body)),
                                   ![c].response = Caught(NotConfigured)]
       ELSE calls' = [calls EXCEPT ![c].stage = "fetching",
                                   ![c].fetches = Append(@, GatewayRequest(calls[c].body))]
    /\ UNCHANGED <<formData, loading, prediction, toast, toastCount, clicks, edits,
                   settled, apiKey, svars>>

\* the handler of the function from the request to the await of fetch
serve(c) ==
    /\ calls[c].stage = "sent"
    /\ IF ~apiKey
       THEN calls' = [calls EXCEPT ![c].stage = "responded",
                                   ![c].response = Caught(NotConfigured)]
       ELSE calls' = [calls EXCEPT ![c].stage = "fetching",
                                   ![c].fetches = Append(@, GatewayRequest(calls[c].body))]
    /\ UNCHANGED <<formData, loading, prediction, toast, toastCount, clicks, edits,
                   settled, apiKey, svars>>

\* the handler from the await of fetch to its response
serveReply(c, reply) ==
    /\ calls[c].stage = "fetching"
    /\ calls' = [calls EXCEPT ![c].stage = "responded",
                              ![c].reply = reply,
                              ![c].response = ServeResponse(reply)]
    /\ UNCHANGED <<formData, loading, prediction, toast, toastCount, clicks, edits,
                   settled, apiKey, svars>>

\* a handlePredict without the finally block: setLoading(false) is the last
\* statement of the try block, which the early returns and a throw skip
resumeWithoutFinally(c, result) ==
    /\ calls' = [calls EXCEPT ![c].stage = "done", ![c].reply = None,
                              ![c].response = None]
    /\ settled' = [call |-> c, reply |-> calls[c].reply,
                   response |-> calls[c].response, result |-> result]
    /\ toast' = Toast(Settle(result).toast, Settle(result).message, calls[c].click)
    /\ toastCount' = [toastCount EXCEPT ![calls[c].click] = Raised(Settle(result).toast, @)]
    /\ prediction' = IF Settle(result).set THEN Settle(result).value ELSE prediction
    /\ loading' = IF Settle(result).set THEN FALSE ELSE loading
    /\ UNCHANGED <<formData, clicks, edits, apiKey, svars>>

\* handlePredict from its await on, with what the invocation gave
resume(c, result) ==
    /\ calls' = [calls EXCEPT ![c].stage = "done", ![c].reply = None,
                              ![c].response = None]
    /\ settled' = [call |-> c, reply |-> calls[c].reply,
                   response |-> calls[c].response, result |-> result]
    /\ toast' = Toast(Settle(result).toast, Settle(result).message, calls[c].click)
    /\ toastCount' = [toastCount EXCEPT ![calls[c].click] = Raised(Settle(result).toast, @)]
    /\ prediction' = IF Settle(result).set THEN Settle(result).value ELSE prediction
    /\ loading' = FALSE
    /\ UNCHANGED <<formData, clicks, edits, apiKey, svars>>

\* the response of the function reaches the client
invokeReturns(c) ==
    /\ calls[c].stage = "responded"
    /\ \E result \in InvokeResults(calls[c].response) : resume(c, result)

\* the request does not reach the function
invokeFails(c) ==
    /\ calls[c].stage = "sent"
    /\ \E result \in TransportFailures : resume(c, result)

Environment ==
    \/ \E field \in FormFields : \E value \in InputsOf(field) :
          handleInputChange(field, value)
    \/ \E c \in 1..Len(calls) : serve(c)
    \/ \E c \in 1..Len(calls) : \E reply \in GatewayReplies : serveReply(c, reply)
    \/ \E c \in 1..Len(calls) : invokeReturns(c)
    \/ \E c \in 1..Len(calls) : invokeFails(c)

\* the component as rendered: handlePredict runs on a click of the button
Next == ClickPredict \/ Environment

Spec == Init /\ [][Next]_vars

\* handlePredict as the function it is, callable whatever `loading` holds
NextDirect == handlePredict \/ Environment

SpecDirect == Init /\ [][NextDirect]_vars

\* a request that has been sent reaches the function, or fails to
Sent == \E c \in 1..Len(calls) : serve(c) \/ invokeFails(c)

\* a call waits for the gateway, or its response waits for the client
Awaited == \E c \in 1..Len(calls) : calls[c].stage \in {"fetching", "responded"}

\* the gateway answers or the fetch fails, the invocation returns
Answered ==
    \E c \in 1..Len(calls) :
        \/ \E reply \in GatewayReplies : serveReply(c, reply)
        \/ invokeReturns(c)

\* the component under the assumption that every call of the forwarding
\* function resolves in the end: weak fairness of Sent and of Answered, the
\* latter written out with the state predicate Awaited, which holds exactly
\* where an Answered step is possible
SpecFair ==
    /\ Spec
    /\ WF_vars(Sent)
    /\ ([]<>~Awaited \/ []<><<Answered>>_vars)
(* ------------------ the settings page and its provider ----------------- *)

\* operations on the settings in one behaviour
MaxChanges == 4

\* the variables of the prediction component and of the function
pvars == <<formData, loading, prediction, toast, toastCount, clicks, edits, calls, settled, apiKey>>

\* settings[key], undefined being JNull
Setting(key) ==
    IF HasKey(settings.members, key) THEN GetMember(settings.members, key) ELSE JNull

\* one more operation on the settings; the prediction component is not touched
Change ==
    /\ changes < MaxChanges
    /\ changes' = changes + 1
    /\ UNCHANGED pvars

\* updateSetting of the provider
updateSetting(key, value) == settings' = SettingUpdater(settings, key, value)

\* a handleSettingChange that forgets setHasChanges(true)
handleSettingChangeUnmarked(key, value) ==
    /\ updateSetting(key, value)
    /\ hasChanges' = hasChanges

\* handleSettingChange of the page
handleSettingChange(key, value) ==
    /\ updateSetting(key, value)
    /\ hasChanges' = TRUE

\* onCheckedChange of the dark-mode switch, which shows settings.darkMode
onDarkModeChange ==
    LET checked == ~Truthy(Setting(<<"darkMode">>))
    IN  /\ Change
        /\ handleSettingChange(<<"darkMode">>, JBool(checked))
        /\ darkClass' = checked
        /\ theme' = Stored(IF checked THEN <<"dark">> ELSE <<"light">>)
        /\ UNCHANGED appSettings

\* onCheckedChange of the switch that shows settings.emailNotifications || false
onEmailNotificationsChange ==
    LET checked == ~Truthy(Setting(<<"emailNotifications">>))
    IN  /\ Change
        /\ handleSettingChange(<<"emailNotifications">>, JBool(checked))
        /\ UNCHANGED <<appSettings, theme, darkClass>>

LocaleInputs == {"en-US", "fr-FR"}

\* onValueChange of the language select
onLocaleChange(value) ==
    /\ Setting(<<"locale">>) # Str(value)
    /\ Change
    /\ handleSettingChange(<<"locale">>, Str(value))
    /\ UNCHANGED <<appSettings, theme, darkClass>>

\* a save that writes the defaults instead of the current settings
handleSaveDefaults ==
    /\ hasChanges
    /\ Change
    /\ appSettings' = Stored(Stringify(defaultSettings))
    /\ hasChanges' = FALSE
    /\ UNCHANGED <<settings, theme, darkClass>>

\* the Save button, which is rendered while hasChanges holds
handleSave ==
    /\ hasChanges
    /\ Change
    /\ appSettings' = Stored(Stringify(settings))
    /\ hasChanges' = FALSE
    /\ UNCHANGED <<settings, theme, darkClass>>

\* the page is loaded again with `saved` as the item 'appSettings': the
\* provider and the page are constructed anew, on a document without classes
Load(saved) ==
    /\ settings' = InitialSettings(saved)
    /\ hasChanges' = FALSE
    /\ darkClass' = FALSE

\* window.location.reload(), or the user reloading the page
reload ==
    /\ Change
    /\ Load(appSettings)
    /\ UNCHANGED <<appSettings, theme>>

\* the Reset button
handleReset ==
    /\ Change
    /\ appSettings' = Absent
    /\ Load(Absent)
    /\ UNCHANGED theme

SectionInputs == {"notifications", "darkMode", "privacy"}

SectionKeyInputs == {"email", "sms"}

\* updateNestedSetting of the provider, as a consumer of the context calls it
updateNestedSetting(section, key, value) ==
    /\ Change
    /\ settings' = NestedSettingUpdater(settings, section, key, value)
    /\ UNCHANGED <<hasChanges, appSettings, theme, darkClass>>

\* what an earlier session saved: settings with a section
SavedWithSection ==
    JObj(Assign(SetMember(defaultSettings.members, <<"darkMode">>, JBool(TRUE)),
                <<Member(<<"notifications">>,
                         JObj(<<Member(<<"email">>, JBool(TRUE))>>))>>))

\* the storage that a session may find: nothing, what an earlier session
\* saved, or an item that is not JSON
SavedSessions ==
    {[appSettings |-> Absent, theme |-> Absent],
     [appSettings |-> Stored(Stringify(SavedWithSection)), theme |-> Stored(<<"dark">>)],
     [appSettings |-> Stored(<<"{", "oops">>), theme |-> Stored(<<"light">>)]}

\* the page is opened in a browser that may hold an earlier session's items
InitSettings ==
    /\ formData = [cropType |-> "", soilType |-> "", humidity |-> <<>>,
                   moisture |-> <<>>, temperature |-> <<>>, rainfall |-> <<>>,
                   area |-> <<>>]
    /\ loading = FALSE
    /\ prediction = JNull
    /\ toast = None
    /\ toastCount = <<>>
    /\ clicks = 0
    /\ edits = 0
    /\ calls = <<>>
    /\ settled = None
    /\ apiKey = TRUE
    /\ \E session \in SavedSessions :
          /\ appSettings = session.appSettings
          /\ theme = session.theme
    /\ settings = InitialSettings(appSettings)
    /\ hasChanges = FALSE
    /\ darkClass = FALSE
    /\ changes = 0

NextSettings ==
    \/ onDarkModeChange
    \/ onEmailNotificationsChange
    \/ \E value \in LocaleInputs : onLocaleChange(value)
    \/ handleSave
    \/ reload
    \/ handleReset
    \/ \E section \in SectionInputs : \E key \in SectionKeyInputs :
          \E value \in BOOLEAN :
             updateNestedSetting(<<section>>, <<key>>, JBool(value))

SpecSettings == InitSettings /\ [][NextSettings]_vars

\* the settings page as the only consumer of the provider: its switches, its
\* select, its Save and Reset buttons, and the reload of the page
NextPage ==
    \/ onDarkModeChange
    \/ onEmailNotificationsChange
    \/ \E value \in LocaleInputs : onLocaleChange(value)
    \/ handleSave
    \/ reload
    \/ handleReset

SpecPage == InitSettings /\ [][NextPage]_vars
(* ------------------------- what the claims speak of -------------------- *)

ValidationMessages == {CropSoilMessage, EnvironmentMessage}

\* cropType or soilType is empty, or one of the five number fields is
FormIncomplete(form) ==
    \/ form.cropType = ""
    \/ form.soilType = ""
    \/ \E field \in requiredFields : form[field] = <<>>

\* a click has just been taken by handlePredict
Clicked == clicks' = clicks + 1

\* the replies the function has answered and the client has not yet left
\* behind: those of the calls that wait for the client, and the one settled
Handled ==
    {[reply |-> calls[c].reply, response |-> calls[c].response] :
        c \in {d \in 1..Len(calls) : calls[d].reply # None}}
    \cup (IF settled # None /\ settled.reply # None
          THEN {[reply |-> settled.reply, response |-> settled.response]}
          ELSE {})

\* the reply is a 2xx reply with a first choice; Content is its text
HasContent(reply) ==
    /\ reply.kind = "http"
    /\ reply.status = 200
    /\ reply.body.json
    /\ reply.body # NoChoicesBody
    /\ reply.body.choices # <<>>
    /\ reply.body.choices[1].message \notin {NoMessage, NullContent}

Content(reply) == reply.body.choices[1].message.content

\* the `error` of the JSON body of a response, JNull if there is none
ResponseError(response) == DataError(JSONParse(response.body).val)

\* the client has settled the reply
SettledReply == settled # None /\ settled.reply # None

\* the toasts raised by the click of the call settled last
ToastsOfSettled == toastCount[calls[settled.call].click]

\* C1: whenever handlePredict runs on a form in which cropType or soilType
\* is empty, or one of humidity, moisture, temperature, rainfall, area is
\* empty, it raises a validation toast and the calls of the forwarding
\* function stay as they were.
C1_IncompleteFormNeverDispatched ==
    [][(Clicked /\ FormIncomplete(formData))
        => /\ calls' = calls
           /\ toast'.kind = "error"
           /\ toast'.message \in ValidationMessages
           /\ toast'.click = clicks']_vars

\* C1 witness: a click on a form with a crop, a soil and an empty number
\* field has been refused, and no call has been made.
C1_Witness ==
    /\ toast # None
    /\ toast.message = EnvironmentMessage
    /\ toast.click = clicks
    /\ formData.cropType # "" /\ formData.soilType # ""
    /\ \E field \in requiredFields : formData[field] = <<>>
    /\ calls = <<>>

\* C2 (as claimed): in every request to the forwarding function, and in every
\* prompt sent to the gateway, humidity, moisture, temperature, rainfall and
\* area are numbers (never the null that a NaN or an infinity becomes).
C2_RequestsCarryFiniteNumbers ==
    \A c \in 1..Len(calls) :
        /\ \A field \in requiredFields : calls[c].body[field] # JNull
        /\ \A i \in 1..Len(calls[c].fetches) :
              \A k \in {6, 8, 10, 12, 14} :
                  calls[c].fetches[i].messages[2].content[k].val # JNull

C4_GatewayErrorsClassified ==
    \A h \in Handled :
        (h.reply.kind = "http" /\ h.reply.status \notin 200..299)
        => /\ ResponseError(h.response).type = "str"
           /\ h.response.status \notin 200..299
           /\ h.reply.status = 429
                => /\ h.response.status = 429
                   /\ ResponseError(h.response).str = RateLimited
           /\ h.reply.status = 402
                => /\ h.response.status = 402
                   /\ ResponseError(h.response).str = PaymentRequired
           /\ h.reply.status \notin {429, 402}
                => /\ h.response.status = 500
                   /\ Includes(ResponseError(h.response).str, ToString(h.reply.status))

\* C4 witness: the function has answered a 503 of the gateway with a 500
\* whose message shows the 503.
C4_Witness ==
    \E c \in 1..Len(calls) :
        /\ calls[c].reply = [kind |-> "http", status |-> 503]
        /\ calls[c].response.status = 500
        /\ Includes(ResponseError(calls[c].response).str, "503")

\* C5: without LOVABLE_API_KEY no request is ever sent to the gateway, and
\* the function answers 500 with the configuration error.
C5_CredentialCheckedBeforeFetch ==
    ~apiKey =>
        /\ \A c \in 1..Len(calls) :
              /\ calls[c].fetches = <<>>
              /\ calls[c].reply = None
              /\ calls[c].stage = "responded"
                   => /\ calls[c].response.status = 500
                      /\ ResponseError(calls[c].response) = JStr(NotConfigured)
        /\ (settled # None /\ settled.response # None)
              => /\ settled.response.status = 500
                 /\ ResponseError(settled.response) = JStr(NotConfigured)

\* C5 witness: the function has answered a request without the credential.
C5_Witness ==
    /\ ~apiKey
    /\ \E c \in 1..Len(calls) : calls[c].stage = "responded"

\* C6: a handlePredict that passes validation adds exactly one call of the
\* forwarding function, whatever calls were made before with the same body;
\* nothing else adds a call; a call sends at most one request to the gateway;
\* a call that has returned is never taken up again.
C6_OneAttemptPerPrediction ==
    [][/\ (Clicked /\ ~FormIncomplete(formData))
            => /\ Len(calls') = Len(calls) + 1
               /\ SubSeq(calls', 1, Len(calls)) = calls
               /\ calls'[Len(calls')].stage = "sent"
               /\ calls'[Len(calls')].body = RequestBody(formData)
       /\ ~Clicked => Len(calls') = Len(calls)
       /\ \A c \in 1..Len(calls') : Len(calls'[c].fetches) <= 1
       /\ \A c \in 1..Len(calls) : calls[c].stage = "done" => calls'[c] = calls[c]
      ]_vars

\* C6 witness: two predictions with the same inputs have both returned, each
\* after one request to the gateway.
C6_Witness ==
    /\ Len(calls) = 2
    /\ calls[1].body = calls[2].body
    /\ \A c \in 1..2 : calls[c].stage = "done" /\ Len(calls[c].fetches) = 1

\* the fenced replies whose preamble and trailing prose come from the sets
FencedReplyGivesResult(preambles, trailings) ==
    \A pre \in preambles : \A post \in trailings : \A r \in WellFormedResults :
        /\ \A h \in Handled :
              (HasContent(h.reply) /\ Content(h.reply) = Fenced(pre, r, post))
              => /\ h.response.status = 200
                 /\ JSONParse(h.response.body) = [ok |-> TRUE, val |-> r]
        /\ (/\ SettledReply
            /\ HasContent(settled.reply)
            /\ Content(settled.reply) = Fenced(pre, r, post))
              => /\ prediction = r
                 /\ loading = FALSE
                 /\ ToastsOfSettled = [error |-> 0, success |-> 1]

\* C7 (as claimed): a reply made of any preamble prose, the fenced JSON of a
\* well-formed result R and any trailing prose is normalized to R, and the
\* client ends with loading false and prediction = R.
C7_AnyFencedReplyGivesResult == FencedReplyGivesResult(Preambles, Trailings)

\* C7 (amended): the same for a preamble without "{" and trailing prose
\* without "}".
C7_FencedReplyGivesResult ==
    FencedReplyGivesResult({p \in Preambles : ~Includes(p, "{")},
                           {t \in Trailings : ~Includes(t, "}")})

\* C7 witness: the client shows the result of a reply with prose on both
\* sides of the fence.
C7_Witness ==
    /\ SettledReply
    /\ HasContent(settled.reply)
    /\ Content(settled.reply) = Fenced(PlainPreamble, FullResult, PlainTrailing)
    /\ prediction = FullResult
    /\ ~loading

RequiredKeys ==
    {<<"yieldPerHectare">>, <<"totalProduction">>, <<"confidenceLevel">>,
     <<"qualityGrade">>, <<"keyFactors">>, <<"recommendations">>, <<"analysis">>}

LacksRequired(v) ==
    \/ v.type # "obj"
    \/ \E k \in RequiredKeys : ~HasKey(v.members, k)

\* C8 (as claimed): a reply that parses but lacks a required top-level field
\* gets an error response, and the client never holds a result that lacks one.
C8_MissingFieldsRejected ==
    /\ \A h \in Handled :
          (/\ HasContent(h.reply)
           /\ ExtractPrediction(Content(h.reply)).ok
           /\ LacksRequired(ExtractPrediction(Content(h.reply)).val))
          => h.response.status \notin 200..299
    /\ prediction # JNull => ~LacksRequired(prediction)

\* some "{" of the text comes before some "}"
HasBraceSpan(t) ==
    \E i \in 1..Len(t) : \E j \in (i + 1)..Len(t) : t[i] = "{" /\ t[j] = "}"

\* C9: a reply text without a "{" followed by a "}" that is not JSON as a
\* whole gets the 500 parse error, and the client holds no result for it.
C9_UnparseableRejected ==
    /\ \A h \in Handled :
          (/\ HasContent(h.reply)
           /\ ~HasBraceSpan(Content(h.reply))
           /\ ~JSONParse(Content(h.reply)).ok)
          => /\ h.response.status = 500
             /\ ResponseError(h.response) = JStr(ParseFailed)
    /\ (/\ SettledReply
        /\ HasContent(settled.reply)
        /\ ~HasBraceSpan(Content(settled.reply))
        /\ ~JSONParse(Content(settled.reply)).ok)
          => prediction = JNull /\ ToastsOfSettled = [error |-> 1, success |-> 0]

\* C9 witness: the client has been told of the failure to parse a reply
\* whose braces are in the wrong order.
C9_Witness ==
    /\ SettledReply
    /\ HasContent(settled.reply)
    /\ Content(settled.reply) = <<"}", " ", "no", " ", "{">>
    /\ settled.response.status = 500
    /\ toast = Toast("error", FailedToast, calls[settled.call].click)
    /\ prediction = JNull

\* the last click ended in a validation failure
ValidationFailed ==
    /\ toast # None
    /\ toast.click = clicks
    /\ toast.message \in ValidationMessages

\* normalization as specified fails on the text: it does not parse, or it
\* parses to something that lacks a required field
NormalizationFails(content) ==
    \/ ~ExtractPrediction(content).ok
    \/ LacksRequired(ExtractPrediction(content).val)

\* the call settled last took a failure path: no credential, no response,
\* a reply that is not a 2xx with a content, or a content not normalizable
SettledFailure ==
    /\ settled # None
    /\ \/ settled.response = None
       \/ settled.reply = None
       \/ ~HasContent(settled.reply)
       \/ NormalizationFails(Content(settled.reply))

\* loading false, no result, one error toast for the click
FailedState(click) ==
    /\ loading = FALSE
    /\ prediction = JNull
    /\ toastCount[click] = [error |-> 1, success |-> 0]

\* C10 (as claimed): every failure path leaves the client Failed: not
\* loading, without a prediction, with exactly one error toast.
C10_EveryFailureEndsFailed ==
    /\ ValidationFailed => FailedState(clicks)
    /\ SettledFailure => FailedState(calls[settled.call].click)

\* a handlePredict that has passed validation has just dispatched a call
Dispatched == Len(calls') = Len(calls) + 1

\* handlePredict has just resumed after the await of call c
Resumed(c) == calls[c].stage # "done" /\ calls'[c].stage = "done"

\* C12: loading (InFlight) becomes true only by a dispatch made while it is
\* false, and false only by the return of a call; a handlePredict that passes
\* validation, whatever the outcome of the request before it, sets loading
\* and clears the prediction; a call reaches its outcome (a prediction with a
\* success toast, or no prediction with an error toast) only from loading
\* true, and the prediction changes at no other step.
C12_RequestStateMachine ==
    [][/\ (~loading /\ loading') => Dispatched
       /\ (loading /\ ~loading') => \E c \in 1..Len(calls) : Resumed(c)
       /\ (Clicked /\ ~FormIncomplete(formData))
            => ~loading /\ loading' /\ prediction' = JNull /\ Dispatched
       /\ \A c \in 1..Len(calls) :
             Resumed(c)
             => /\ loading /\ ~loading'
                /\ toast'.click = calls[c].click
                /\ \/ prediction' # JNull /\ toast'.kind = "success"
                   \/ prediction' = JNull /\ toast'.kind = "error"
       /\ prediction' # prediction
            => Dispatched \/ \E c \in 1..Len(calls) : Resumed(c)
      ]_vars

\* C12 witness: after a first request that succeeded, a second one is in
\* flight and the result of the first is gone.
C12_Witness ==
    /\ Len(calls) = 2
    /\ calls[1].stage = "done"
    /\ calls[2].stage = "sent"
    /\ toast = Toast("success", SuccessToast, calls[1].click)
    /\ loading
    /\ prediction = JNull

\* the value is an object whose members are those of `before`, with `key`
\* set to `value`: the other keys keep their values and no key is added
MergedInto(before, after, key, value) ==
    /\ after.type = "obj"
    /\ HasKey(after.members, key)
    /\ GetMember(after.members, key) = value
    /\ \A i \in 1..Len(before.members) :
          before.members[i].key # key
          => /\ HasKey(after.members, before.members[i].key)
             /\ GetMember(after.members, before.members[i].key) = before.members[i].val
    /\ \A i \in 1..Len(after.members) :
          after.members[i].key # key => HasKey(before.members, after.members[i].key)

\* C13: updateNestedSetting(section, key, value) on settings that hold an
\* object under `section` leaves every other setting as it was and merges
\* {key: value} into that object; on settings without `section` it leaves
\* the settings as they were, without the section.
C13_NestedSettingMerges ==
    [][\A section \in SectionInputs : \A key \in SectionKeyInputs : \A value \in BOOLEAN :
          updateNestedSetting(<<section>>, <<key>>, JBool(value))
          => IF HasKey(settings.members, <<section>>)
             THEN Setting(<<section>>).type = "obj"
                  => /\ Len(settings'.members) = Len(settings.members)
                     /\ \A i \in 1..Len(settings.members) :
                           /\ settings'.members[i].key = settings.members[i].key
                           /\ settings.members[i].key # <<section>>
                                => settings'.members[i].val = settings.members[i].val
                     /\ MergedInto(Setting(<<section>>),
                                   GetMember(settings'.members, <<section>>),
                                   <<key>>, JBool(value))
             ELSE /\ settings' = settings
                  /\ ~HasKey(settings'.members, <<section>>)
      ]_vars

\* C13 witness: the section saved by an earlier session has got a second
\* key next to the one it had, and the settings still have no other section.
C13_Witness ==
    /\ Setting(<<"notifications">>)
         = JObj(<<Member(<<"email">>, JBool(TRUE)), Member(<<"sms">>, JBool(FALSE))>>)
    /\ ~HasKey(settings.members, <<"privacy">>)
    /\ Setting(<<"darkMode">>) = JBool(TRUE)
    /\ changes = MaxChanges

\* C14 (as claimed): the settings stored under 'appSettings' reflect every
\* change of updateSetting and updateNestedSetting: what a reload would
\* yield is what the provider holds.
C14_ChangesAreStored == InitialSettings(appSettings) = settings

\* C14 (amended): updateSetting and updateNestedSetting change the settings
\* in memory and leave the item 'appSettings' as it is; the item is written
\* by handleSave alone, which stores the whole current settings object, so
\* that a reload after it yields every value changed before the save.
C14_SaveStoresChanges ==
    [][/\ settings' # settings /\ hasChanges' => appSettings' = appSettings
       /\ (\E section \in SectionInputs : \E key \in SectionKeyInputs :
              \E value \in BOOLEAN :
                 updateNestedSetting(<<section>>, <<key>>, JBool(value)))
            => appSettings' = appSettings
       /\ (appSettings'.present /\ appSettings' # appSettings)
            => /\ hasChanges /\ ~hasChanges'
               /\ settings' = settings
               /\ JSONParse(appSettings'.text) = [ok |-> TRUE, val |-> settings]
               /\ InitialSettings(appSettings') = settings
      ]_vars

\* C14 witness: a changed language has been saved and the page loaded again:
\* the provider holds the changed value, read from the stored item.
C14_Witness ==
    /\ ~hasChanges
    /\ appSettings.present
    /\ Setting(<<"locale">>) = Str("fr-FR")
    /\ JSONParse(appSettings.text).ok
    /\ GetMember(JSONParse(appSettings.text).val.members, <<"locale">>) = Str("fr-FR")
    /\ changes = 3
    /\ theme = Absent

\* the text `part` occurs in the text `whole`
ContainsText(whole, part) ==
    \E i \in 1..(Len(whole) - Len(part) + 1) :
        SubSeq(whole, i, i + Len(part) - 1) = part

\* C15 (as claimed): when the text of a reply cannot be parsed, the error
\* that the function returns holds that text.
C15_ParseErrorCarriesRawText ==
    \A h \in Handled :
        (HasContent(h.reply) /\ ~ExtractPrediction(Content(h.reply)).ok)
        => /\ ResponseError(h.response).type = "str"
           /\ ContainsText(ResponseError(h.response).str, Content(h.reply))

\* C16: a handlePredict on a form without a crop or without a soil reports
\* the crop/soil message, whatever the number fields hold, and makes no call;
\* it reports the environmental-factors message only on a form with a crop
\* and a soil in which a number field is empty or is not a finite number.
C16_CategoricalFieldsCheckedFirst ==
    [][Clicked
        => /\ (formData.cropType = "" \/ formData.soilType = "")
                => /\ toast' = Toast("error", CropSoilMessage, clicks')
                   /\ calls' = calls
           /\ toast' = Toast("error", EnvironmentMessage, clicks')
                => /\ formData.cropType # "" /\ formData.soilType # ""
                   /\ \E field \in requiredFields :
                         \/ formData[field] = <<>>
                         \/ ~IsFinite(parseFloat(formData[field]))
      ]_vars

\* C16 witness: a click on a form with a soil, without a crop and without a
\* humidity has been answered with the crop/soil message.
C16_Witness ==
    /\ toast = Toast("error", CropSoilMessage, clicks)
    /\ formData.cropType = ""
    /\ formData.soilType # ""
    /\ formData.humidity = <<>>
    /\ formData.area # <<>>

\* the calls of the forwarding function that have not returned to the client
Outstanding == {c \in 1..Len(calls) : calls[c].stage # "done"}

\* C17: at most one call of the forwarding function is outstanding, it is
\* the one dispatched last, and loading holds as long as it is outstanding,
\* which keeps the Predict button disabled.
C17_OneOutstandingRequest ==
    /\ Cardinality(Outstanding) <= 1
    /\ Outstanding # {} => loading /\ Outstanding = {Len(calls)}

\* C17 witness: a second call is with the gateway, started after the first
\* one had returned.
C17_Witness ==
    /\ Len(calls) = 2
    /\ calls[1].stage = "done"
    /\ calls[2].stage = "fetching"
    /\ loading

\* C18: if every call of the forwarding function resolves in the end, then
\* loading, once true, becomes false again, whatever the call gives (a
\* result, a returned error, a body with an error, a value that makes the
\* handler throw); and loading is true only while a call is outstanding.
C18_LoadingEventuallyCleared ==
    /\ [](loading => Outstanding # {})
    /\ loading ~> ~loading
    /\ \A c \in 1..MaxClicks :
          (c <= Len(calls) /\ calls[c].stage # "done")
          ~> (c <= Len(calls) /\ calls[c].stage = "done" /\ ~loading)

\* C18 witness: the invocation gave null for data, reading data.error threw,
\* and the finally block has cleared loading.
C18_Witness ==
    /\ settled # None
    /\ settled.result = Resolved(JNull, JNull)
    /\ toast = Toast("error", UnexpectedToast, calls[settled.call].click)
    /\ ~loading

\* C19: while a request is in flight no prediction is held, and a prediction
\* that is held is the data that the request dispatched last has returned:
\* the result of an earlier request is gone once a later one has started,
\* whether the later one is in flight, has failed or has succeeded.
C19_NewRequestDiscardsResult ==
    /\ loading => prediction = JNull
    /\ Outstanding # {} => prediction = JNull
    /\ prediction # JNull
         => /\ settled # None
            /\ settled.call = Len(calls)
            /\ settled.result.error = JNull
            /\ settled.result.data = prediction
            /\ toastCount[calls[Len(calls)].click] = [error |-> 0, success |-> 1]

\* C19 witness: the first request succeeded, the second one has failed, and
\* no prediction is held.
C19_Witness ==
    /\ Len(calls) = 2
    /\ calls[1].stage = "done"
    /\ calls[2].stage = "done"
    /\ toastCount[calls[1].click] = [error |-> 0, success |-> 1]
    /\ toastCount[calls[2].click] = [error |-> 1, success |-> 0]
    /\ prediction = JNull
    /\ ~loading

\* the call settled last came back with an error of the forwarding call
SettledError == settled # None /\ settled.result.error # JNull

\* the message of that error
SettledMessage == settled.result.error.message

\* the toast that the priority order gives for an error message
Classified(message) ==
    IF Includes(message, "429") THEN RateLimitToast
    ELSE IF ~Includes(message, "429") /\ Includes(message, "402") THEN CreditsToast
    ELSE FailedToast

\* C20: when the forwarding call returns an error, the toast raised is the
\* rate-limit message if the error message holds '429', otherwise the
\* credits message if it holds '402', otherwise the generic failure message;
\* it is the only toast of that click, and no prediction is held, then and
\* for as long as that call is the one settled last.
C20_ErrorClassifiedInPriorityOrder ==
    [][/\ \A c \in 1..Len(calls) :
             (Resumed(c) /\ settled'.result.error # JNull)
                => /\ toast' = Toast("error",
                                     Classified(settled'.result.error.message),
                                     calls[c].click)
                   /\ toastCount'[calls[c].click] = [error |-> 1, success |-> 0]
                   /\ prediction' = JNull
                   /\ settled'.call = c
       /\ SettledError' => /\ ToastsOfSettled' = [error |-> 1, success |-> 0]
                           /\ prediction' = JNull]_vars

\* C20 witness: an error whose message holds both numbers was classified as
\* a rate limit.
C20_Witness ==
    /\ SettledError
    /\ Includes(SettledMessage, "429")
    /\ Includes(SettledMessage, "402")
    /\ toast.message = RateLimitToast

\* the pairs of positions of a "{" and of a "}" after it
BraceSpans(content) ==
    {span \in (1..Len(content)) \X (1..Len(content)) :
        /\ span[1] < span[2]
        /\ content[span[1]] = "{"
        /\ content[span[2]] = "}"}

\* the text from the first "{" to the last "}"
WidestSpan(content) ==
    LET widest == CHOOSE span \in BraceSpans(content) :
                     \A other \in BraceSpans(content) :
                        span[1] <= other[1] /\ other[2] <= span[2]
    IN  SubSeq(content, widest[1], widest[2])

\* the success response that carries the value a text parses to
Success(text) == Response(200, JSONParse(text).val)

\* C21: for a reply with a content, if the content holds a text from the
\* first "{" to the last "}", the response is the success response for that
\* text when it parses and the 500 parse failure when it does not, whether or
\* not the whole content would parse; the whole content is parsed only when
\* there is no such text.
C21_FallbackLadder ==
    \A h \in Handled :
        HasContent(h.reply) =>
            LET content == Content(h.reply)
            IN  IF BraceSpans(content) # {}
                THEN IF JSONParse(WidestSpan(content)).ok
                     THEN h.response = Success(WidestSpan(content))
                     ELSE h.response = Caught(ParseFailed)
                ELSE IF JSONParse(content).ok
                     THEN h.response = Success(content)
                     ELSE h.response = Caught(ParseFailed)

\* C21 witness: a settled reply whose content parses as a whole, while its
\* text between the braces does not, was answered with the parse failure.
C21_Witness ==
    /\ SettledReply
    /\ HasContent(settled.reply)
    /\ BraceSpans(Content(settled.reply)) # {}
    /\ ~JSONParse(WidestSpan(Content(settled.reply))).ok
    /\ JSONParse(Content(settled.reply)).ok
    /\ settled.response = Caught(ParseFailed)

\* C21 witness of the other rung: a content without braces was parsed whole.
C21_WholeTextParsed ==
    /\ SettledReply
    /\ HasContent(settled.reply)
    /\ BraceSpans(Content(settled.reply)) = {}
    /\ settled.response = Success(Content(settled.reply))

\* C22: a handlePredict that fails validation leaves loading, the prediction
\* and the form as they were: a result displayed before the click is still
\* displayed after it.
C22_ValidationFailureKeepsState ==
    [][(Clicked /\ FormIncomplete(formData))
        => /\ loading' = loading
           /\ prediction' = prediction
           /\ formData' = formData]_vars

\* C22 witness: a click after the one that brought the prediction has failed
\* validation, and the prediction is still held.
C22_Witness ==
    /\ ValidationFailed
    /\ prediction # JNull
    /\ settled # None
    /\ calls[settled.call].click < clicks
    /\ ~loading

\* settings.darkMode of the settings that a load of the page builds from the
\* stored item 'appSettings' merged over the defaults
LoadedDarkMode ==
    Truthy(GetMember(InitialSettings(appSettings).members, <<"darkMode">>))

\* C23 (as claimed): the stored 'theme' is 'dark' exactly when the darkMode
\* setting, as loaded from the stored 'appSettings' merged over the defaults,
\* is true.
C23_ThemeAgreesWithDarkMode ==
    (theme = Stored(<<"dark">>)) <=> LoadedDarkMode

\* the settings that a load of the page builds from the stored 'appSettings'
Reloaded == InitialSettings(appSettings)

\* C24: in the settings page, while hasChanges is false the settings in
\* memory are those a reload would build from storage; a step that changes
\* the settings leaves hasChanges true unless it loads the page anew, and a
\* step that writes 'appSettings' writes the whole current settings object
\* and leaves hasChanges false.
C24_UnchangedMeansStored ==
    /\ [](~hasChanges => settings = Reloaded)
    /\ [][/\ settings' # settings => (hasChanges' \/ reload \/ handleReset)
          /\ (appSettings'.present /\ appSettings' # appSettings)
               => /\ appSettings' = Stored(Stringify(settings))
                  /\ ~hasChanges'
         ]_vars

\* C24 witness: a session that changed the language and the dark mode and
\* saved them holds, with hasChanges false, settings that differ from the
\* defaults and equal those a reload would build.
C24_Witness ==
    /\ ~hasChanges
    /\ changes = 3
    /\ Setting(<<"locale">>) = Str("fr-FR")
    /\ Setting(<<"darkMode">>) = JBool(TRUE)
    /\ theme = Stored(<<"dark">>)
    /\ darkClass
    /\ settings = Reloaded

\* a 2xx reply with a JSON body from which no text can be read: no
\* `choices`, no first choice, a first choice without a message, or a
\* message whose content is null or empty
Contentless(reply) ==
    /\ reply.kind = "http"
    /\ reply.status = 200
    /\ reply.body.json
    /\ \/ ~HasContent(reply)
       \/ Content(reply) = <<>>

\* C25: a 2xx reply without a first choice or without a message content is
\* answered by the function with status 500 and an error in the body, and
\* the client that gets this answer holds no prediction.
C25_ContentlessReplyIsAnError ==
    /\ \A h \in Handled :
          Contentless(h.reply)
             => /\ h.response.status = 500
                /\ Truthy(ResponseError(h.response))
    /\ (SettledReply /\ Contentless(settled.reply))
          => /\ prediction = JNull
             /\ ToastsOfSettled = [error |-> 1, success |-> 0]

\* C25 witness: a reply whose first message has a null content has been
\* answered with a 500, and the client has shown the failure.
C25_Witness ==
    /\ SettledReply
    /\ settled.reply.kind = "http"
    /\ settled.reply.status = 200
    /\ settled.reply.body.json
    /\ settled.reply.body.choices # <<>>
    /\ settled.reply.body.choices[1].message = NullContent
    /\ settled.response.status = 500
    /\ prediction = JNull
    /\ toast.kind = "error"

====
